---- MODULE Spec2Model ----
(***************************************************************************)
(* KleoPy grid-search engine (kleopy.grid_search, kleopy.integrator,       *)
(* kleopy.orbital_eq) as a state machine of calls.                          *)
(*                                                                         *)
(* Numbers.  A float is a record: [k |-> "fin", v |-> n] is the finite     *)
(* value n / Scale (fixed point, three decimals), [k |-> "inf", v |-> 1]   *)
(* and [k |-> "inf", v |-> -1] are +inf and -inf, [k |-> "nan", v |-> 0]   *)
(* is NaN.  The arithmetic follows IEEE-754 on the special values (x/0,    *)
(* inf - inf, log and sqrt of a negative number, comparisons with NaN).    *)
(* The constants of kleopy.constants are given in thousandths; l1 and l2   *)
(* (0.486608, 0.513392) are rounded to three decimals and still add up to  *)
(* the segment length l.                                                   *)
(*                                                                         *)
(* Arrays.  A numpy value is [kind, shape, data]: kind "ndarray" with its  *)
(* shape and its elements in row-major order, or kind "scalar" (a Python   *)
(* or numpy scalar; shape << >>, one element).                             *)
(***************************************************************************)
EXTENDS Integers, Sequences, FiniteSets, TLC

VARIABLES errstate, rnd, op, args, ret, errBefore, solve

vars == <<errstate, rnd, op, args, ret, errBefore, solve>>

-----------------------------------------------------------------------------
(* Bounds of the model *)

\* longest 1-D array handed to find_dy0t directly
MaxLen == 2
\* largest step size (in half units) handed to init_grid
MaxDif == 3

-----------------------------------------------------------------------------
(* Fixed-point floats *)

Scale == 10 * 10 * 10

\* kleopy.constants, in thousandths
l == 1000
l1 == 487
l2 == 513
kappa == 991
mu == 484
mu_s == 163
\* numpy.pi, in thousandths
PI == 3142

Fin(n) == [k |-> "fin", v |-> n]
NaN == [k |-> "nan", v |-> 0]
PInf == [k |-> "inf", v |-> 1]
NInf == [k |-> "inf", v |-> -1]

IsNaN(a) == a.k = "nan"
IsInf(a) == a.k = "inf"
IsFin(a) == a.k = "fin"

Sgn(n) == IF n > 0 THEN 1 ELSE IF n < 0 THEN -1 ELSE 0
Abs(n) == IF n < 0 THEN -n ELSE n

\* integer quotient rounded toward zero, as Python's int() of a float quotient
TruncDiv(a, b) == Sgn(a) * Sgn(b) * (Abs(a) \div Abs(b))

FSign(a) == IF a.k = "inf" THEN a.v ELSE Sgn(a.v)

FNeg(a) == IF a.k = "nan" THEN NaN ELSE [k |-> a.k, v |-> -a.v]

FAdd(a, b) ==
    IF IsNaN(a) \/ IsNaN(b) THEN NaN
    ELSE IF IsInf(a) /\ IsInf(b) THEN (IF a.v = b.v THEN a ELSE NaN)
    ELSE IF IsInf(a) THEN a
    ELSE IF IsInf(b) THEN b
    ELSE Fin(a.v + b.v)

FSub(a, b) == FAdd(a, FNeg(b))

FMul(a, b) ==
    IF IsNaN(a) \/ IsNaN(b) THEN NaN
    ELSE IF IsInf(a) \/ IsInf(b)
         THEN (IF FSign(a) * FSign(b) = 0 THEN NaN
               ELSE [k |-> "inf", v |-> FSign(a) * FSign(b)])
    ELSE Fin(TruncDiv(a.v * b.v, Scale))

\* x / 0 is +-inf and 0 / 0 is NaN: numpy reports them through the error
\* state ("divide", "invalid"), which find_dy0t sets to "ignore"
FDiv(a, b) ==
    IF IsNaN(a) \/ IsNaN(b) THEN NaN
    ELSE IF IsInf(a) /\ IsInf(b) THEN NaN
    ELSE IF IsInf(a) THEN [k |-> "inf", v |-> a.v * (IF FSign(b) < 0 THEN -1 ELSE 1)]
    ELSE IF IsInf(b) THEN Fin(0)
    ELSE IF b.v = 0
         THEN (IF a.v = 0 THEN NaN ELSE [k |-> "inf", v |-> Sgn(a.v)])
    ELSE Fin(TruncDiv(a.v * Scale, b.v))

\* the comparison a < b; every comparison with NaN is False
FLt(a, b) ==
    IF IsNaN(a) \/ IsNaN(b) THEN FALSE
    ELSE IF IsInf(a) /\ IsInf(b) THEN a.v < b.v
    ELSE IF IsInf(a) THEN a.v < 0
    ELSE IF IsInf(b) THEN b.v > 0
    ELSE a.v < b.v

RECURSIVE SqrtSearch(_, _, _)
SqrtSearch(n, lo, hi) ==
    IF lo >= hi THEN lo
    ELSE LET mid == (lo + hi + 1) \div 2
         IN  IF mid * mid <= n THEN SqrtSearch(n, mid, hi)
             ELSE SqrtSearch(n, lo, mid - 1)

\* floor of the square root of n >= 0
ISqrt(n) == SqrtSearch(n, 0, 46340)

\* numpy.sqrt: NaN for a negative argument ("invalid"), also for -inf
FSqrt(a) ==
    IF IsNaN(a) THEN NaN
    ELSE IF IsInf(a) THEN (IF a.v > 0 THEN PInf ELSE NaN)
    ELSE IF a.v < 0 THEN NaN
    ELSE Fin(ISqrt(a.v * Scale))

RECURSIVE LnFix(_)
\* natural logarithm of n / Scale for n > 0, in thousandths: halve or double
\* into [1, 2), then 2 * atanh((m - 1) / (m + 1)) by its series
LnFix(n) ==
    IF n >= 2 * Scale THEN 693 + LnFix(n \div 2)
    ELSE IF n < Scale THEN LnFix(2 * n) - 693
    ELSE LET z  == ((n - Scale) * Scale) \div (n + Scale)
             z2 == (z * z) \div Scale
             z3 == (z2 * z) \div Scale
             z5 == (z3 * z2) \div Scale
         IN  2 * (z + z3 \div 3 + z5 \div 5)

\* numpy.log: -inf at 0 ("divide"), NaN below 0 ("invalid")
FLog(a) ==
    IF IsNaN(a) THEN NaN
    ELSE IF IsInf(a) THEN (IF a.v > 0 THEN PInf ELSE NaN)
    ELSE IF a.v < 0 THEN NaN
    ELSE IF a.v = 0 THEN NInf
    ELSE Fin(LnFix(a.v))

-----------------------------------------------------------------------------
(* numpy arrays *)

Scalar(a) == [kind |-> "scalar", shape |-> << >>, data |-> <<a>>]
Array1(s) == [kind |-> "ndarray", shape |-> <<Len(s)>>, data |-> s]

RECURSIVE Prod(_)
Prod(s) == IF s = << >> THEN 1 ELSE Head(s) * Prod(Tail(s))

Size(shape) == Prod(shape)

Reverse(s) == [d \in 1..Len(s) |-> s[Len(s) + 1 - d]]

\* number of elements one step along axis d spans, row-major
Stride(shape, d) == Prod(SubSeq(shape, d + 1, Len(shape)))

\* 0-based index tuple of the k-th element (k 0-based), row-major
Unravel(k, shape) == [d \in 1..Len(shape) |-> (k \div Stride(shape, d)) % shape[d]]

RECURSIVE SumSeq(_)
SumSeq(s) == IF s = << >> THEN 0 ELSE Head(s) + SumSeq(Tail(s))

\* 0-based position of an index tuple, row-major
Ravel(idx, shape) == SumSeq([d \in 1..Len(shape) |-> idx[d] * Stride(shape, d)])

\* element [i, j, ...] (0-based) of an array
At(a, idx) == a.data[1 + Ravel(idx, a.shape)]

Max(a, b) == IF a >= b THEN a ELSE b

\* a shape left-padded with 1s to n axes
Pad(s, n) == [d \in 1..n |-> IF d <= n - Len(s) THEN 1 ELSE s[d - (n - Len(s))]]

Compatible(s1, s2) ==
    LET n == Max(Len(s1), Len(s2))
    IN  \A d \in 1..n : \/ Pad(s1, n)[d] = Pad(s2, n)[d]
                        \/ Pad(s1, n)[d] = 1
                        \/ Pad(s2, n)[d] = 1

BroadcastShape(s1, s2) ==
    LET n == Max(Len(s1), Len(s2))
    IN  [d \in 1..n |-> IF Pad(s1, n)[d] = 1 THEN Pad(s2, n)[d] ELSE Pad(s1, n)[d]]

\* the element of a that lands at index tuple idx of the broadcast shape
BroadcastAt(a, idx) ==
    LET off == Len(idx) - Len(a.shape)
    IN  At(a, [d \in 1..Len(a.shape) |-> IF a.shape[d] = 1 THEN 0 ELSE idx[d + off]])

\* a ufunc's result: numpy hands back a scalar, not a 0-d array, when every
\* operand is 0-dimensional
Wrap(shape, data) ==
    [kind |-> IF shape = << >> THEN "scalar" ELSE "ndarray", shape |-> shape, data |-> data]

\* number * array, elementwise
np_multiply(c, a) == Wrap(a.shape, [k \in 1..Len(a.data) |-> FMul(c, a.data[k])])

\* array - array, elementwise over the broadcast shape
np_subtract(a, b) ==
    LET shape == BroadcastShape(a.shape, b.shape)
    IN  Wrap(shape, [k \in 1..Size(shape) |->
                       FSub(BroadcastAt(a, Unravel(k - 1, shape)),
                            BroadcastAt(b, Unravel(k - 1, shape)))])

\* np.sqrt, elementwise
np_sqrt(a) == Wrap(a.shape, [k \in 1..Len(a.data) |-> FSqrt(a.data[k])])

\* numpy.asarray: a scalar becomes a 0-d array
asarray(a) == [kind |-> "ndarray", shape |-> a.shape, data |-> a.data]

-----------------------------------------------------------------------------
(* kleopy.orbital_eq *)

\* sqrt(a**2 + b**2 + c**2), the squares kept at full precision so that the
\* distance along the axis is exact
Dist(a, b, c) ==
    IF IsNaN(a) \/ IsNaN(b) \/ IsNaN(c) THEN NaN
    ELSE IF IsInf(a) \/ IsInf(b) \/ IsInf(c) THEN PInf
    ELSE Fin(ISqrt(a.v * a.v + b.v * b.v + c.v * c.v))

\* On the segment r1 + r2 equals l and the float r1 + r2 - l is 0 or one
\* rounding step above or below it, depending on the position's digits:
\* -1, 0 or 1 here, fixed per position within a run
Residue(x) == ((x.v + rnd) % 3) - 1

\* np.log((r1+r2+l)/(r1+r2-l))
SegmentLog(x, r1, r2) ==
    LET num == FAdd(FAdd(r1, r2), Fin(l))
        den == FSub(FAdd(r1, r2), Fin(l))
    IN  IF den = Fin(0) /\ IsFin(x)
        THEN CASE Residue(x) = -1 -> FLog(FNeg(PInf))
               [] Residue(x) = 0  -> FLog(FDiv(num, den))
               [] Residue(x) = 1  -> Fin(53 * 693)
        ELSE FLog(FDiv(num, den))

\* potential_eff at one point
potential_eff_at(x, y, z) ==
    LET r1 == Dist(FAdd(x, Fin(l1)), y, z)
        r2 == Dist(FSub(x, Fin(l2)), y, z)
        one == Fin(Scale)
        t1 == FDiv(FMul(FSub(one, Fin(mu)), FSub(one, Fin(mu_s))), r1)
        t2 == FDiv(FMul(Fin(mu), FSub(one, Fin(mu_s))), r2)
        t3 == FMul(FDiv(Fin(mu_s), Fin(l)), SegmentLog(x, r1, r2))
    IN  FAdd(FMul(FDiv(one, Fin(2 * Scale)), FAdd(FMul(x, x), FMul(y, y))),
             FMul(Fin(kappa), FAdd(FAdd(t1, t2), t3)))

\* potential_eff(x, y, z) for an array or scalar x and Python numbers y, z
potential_eff(x, y, z) ==
    Wrap(x.shape, [k \in 1..Len(x.data) |-> potential_eff_at(x.data[k], y, z)])

-----------------------------------------------------------------------------
(* Outcomes of a call *)

Return(v) == [kind |-> "return", val |-> v]
Raise(e) == [kind |-> "raise", exc |-> e]

-----------------------------------------------------------------------------
(* kleopy.grid_search.find_dy0t *)

\* np.seterr(invalid='ignore', divide='ignore'): the process-wide setting
seterr_ignore(e) == [e EXCEPT !.invalid = "ignore", !.divide = "ignore"]

\* sqrtval = 2 * potential_eff(x0, 0, 0) - C
sqrtval_of(x0, C) ==
    np_subtract(np_multiply(Fin(2 * Scale), potential_eff(x0, Fin(0), Fin(0))), C)

\* the mask without its np.isinf term
badmask_without_isinf(sqrtval) ==
    Wrap(sqrtval.shape, [k \in 1..Len(sqrtval.data) |-> FLt(sqrtval.data[k], Fin(0))])

\* badmask = (sqrtval < 0) | np.isinf(sqrtval)
badmask_of(sqrtval) ==
    Wrap(sqrtval.shape, [k \in 1..Len(sqrtval.data) |->
                           FLt(sqrtval.data[k], Fin(0)) \/ IsInf(sqrtval.data[k])])

find_dy0t(x0in, Cin) ==
    LET x0 == asarray(x0in)
        C  == asarray(Cin)
    IN  IF ~Compatible(x0.shape, C.shape) THEN Raise("ValueError")
        ELSE LET sqrtval == sqrtval_of(x0, C)
                 badmask == badmask_of(sqrtval)
                 dy0t    == np_sqrt(sqrtval)
             IN  \* dy0t[badmask] = np.nan: a numpy scalar has no item assignment
                 IF dy0t.kind = "scalar" THEN Raise("TypeError")
                 ELSE Return([dy0t EXCEPT !.data =
                                [k \in 1..Len(dy0t.data) |->
                                   IF badmask.data[k] THEN NaN ELSE dy0t.data[k]]])

-----------------------------------------------------------------------------
(* kleopy.grid_search.init_grid *)

\* int(q) of a float quotient q: rounds toward zero
int_of(q) == TruncDiv(q.v, Scale)

\* the sample count without its + 1
num_samples_short(lo, hi, dif) == int_of(FDiv(FSub(hi, lo), dif))

\* int((hi - lo) / dif) + 1
num_samples(lo, hi, dif) == int_of(FDiv(FSub(hi, lo), dif)) + 1

\* np.linspace(start, stop, num): num evenly spaced samples, the last one set
\* to stop itself; a single sample is start; a negative num is refused
linspace(start, stop, num) ==
    IF num < 0 THEN Raise("ValueError")
    ELSE Return(Array1([i \in 1..num |->
            IF num > 1 /\ i = num THEN stop
            ELSE IF num = 1 THEN start
            ELSE FAdd(start, Fin(TruncDiv((i - 1) * (stop.v - start.v), num - 1)))]))

\* np.meshgrid(x, y, indexing=...) of two 1-D arrays: "ij" gives shape
\* (len x, len y), "xy" gives shape (len y, len x)
meshgrid(x, y, indexing) ==
    LET nx == Len(x.data)
        ny == Len(y.data)
        shape == IF indexing = "ij" THEN <<nx, ny>> ELSE <<ny, nx>>
        xi(idx) == IF indexing = "ij" THEN idx[1] ELSE idx[2]
        yi(idx) == IF indexing = "ij" THEN idx[2] ELSE idx[1]
    IN  << [kind |-> "ndarray", shape |-> shape,
            data |-> [k \in 1..(nx * ny) |-> x.data[1 + xi(Unravel(k - 1, shape))]]],
           [kind |-> "ndarray", shape |-> shape,
            data |-> [k \in 1..(nx * ny) |-> y.data[1 + yi(Unravel(k - 1, shape))]]] >>

\* np.array([a, b]) of two arrays of one shape: a new leading axis
stack2(a, b) ==
    [kind |-> "ndarray", shape |-> <<2>> \o a.shape, data |-> a.data \o b.data]

\* ndarray.T: the axes reversed
transpose(a) ==
    LET shape == Reverse(a.shape)
    IN  [kind |-> "ndarray", shape |-> shape,
         data |-> [k \in 1..Len(a.data) |-> At(a, Reverse(Unravel(k - 1, shape)))]]

\* ndarray.reshape(-1, 2): the elements in row-major order, two per row
reshape_pairs(a) ==
    [kind |-> "ndarray", shape |-> <<Len(a.data) \div 2, 2>>, data |-> a.data]

\* the pairs without the transpose
pairs_grid_untransposed(x0_array, C_array) ==
    LET m == meshgrid(x0_array, C_array, "xy")
    IN  reshape_pairs(stack2(m[1], m[2]))

\* the (N, 2) array of pairs returned with retgrid=True
pairs_grid(x0_array, C_array) ==
    LET m == meshgrid(x0_array, C_array, "xy")
    IN  reshape_pairs(transpose(stack2(m[1], m[2])))

init_grid(x0_min, x0_max, C_min, C_max, dif_x0, dif_C, retgrid) ==
    IF dif_x0.v = 0 \/ dif_C.v = 0 THEN Raise("ZeroDivisionError")
    ELSE LET x0_array == linspace(x0_min, x0_max, num_samples(x0_min, x0_max, dif_x0))
             C_array  == linspace(C_min, C_max, num_samples(C_min, C_max, dif_C))
         IN  IF x0_array.kind = "raise" THEN x0_array
             ELSE IF C_array.kind = "raise" THEN C_array
             ELSE LET g == meshgrid(x0_array.val, C_array.val, "ij")
                      DY0T_grid == find_dy0t(g[1], g[2])
                  IN  IF DY0T_grid.kind = "raise" THEN DY0T_grid
                      ELSE IF retgrid
                      THEN Return(<<g[1], g[2], DY0T_grid.val,
                                    pairs_grid(x0_array.val, C_array.val)>>)
                      ELSE Return(<<g[1], g[2], DY0T_grid.val>>)

-----------------------------------------------------------------------------
(* kleopy.integrator.find_dxt and the ODE solver it calls *)

\* The derivative functions handed in: a constant field f(t, Y) = c, which
\* the solver integrates exactly, or a field with a singularity ahead of
\* t = pi on which the adaptive step size collapses.
Funs ==
    { [name |-> "drift", c |-> <<100, 200, 300, 400, 500, 600>>, singular |-> FALSE],
      [name |-> "rest", c |-> <<0, 0, 0, 0, 0, 0>>, singular |-> FALSE],
      [name |-> "singular", c |-> <<0, 0, 0, 0, 0, 0>>, singular |-> TRUE] }

NoSolve == [called |-> FALSE]

\* the arguments find_dxt hands to solve_ivp
solve_args(fun, x0, dy0t, method) ==
    [called |-> TRUE, fun |-> fun, t_span |-> <<Fin(0), Fin(PI)>>,
     y0 |-> <<x0, Scalar(Fin(0)), Scalar(Fin(0)), Scalar(Fin(0)), dy0t, Scalar(Fin(0))>>,
     method |-> method, t_eval |-> <<Fin(PI)>>]

\* scipy.integrate.solve_ivp: y0 must convert to a 1-D array of finite
\* numbers.  A solve that ends in failure before reaching a time of t_eval
\* has no sample: its y is empty.  Otherwise y[i][k] is component i at
\* t_eval[k].
solve_ivp(a) ==
    IF \E i \in 1..Len(a.y0) : a.y0[i].shape # << >> THEN Raise("ValueError")
    ELSE IF \E i \in 1..Len(a.y0) : ~IsFin(a.y0[i].data[1]) THEN Raise("ValueError")
    ELSE IF a.fun.singular
    THEN Return([status |-> -1, t |-> << >>, y |-> << >>])
    ELSE Return([status |-> 0, t |-> a.t_eval,
                 y |-> [i \in 1..Len(a.y0) |->
                          [k \in 1..Len(a.t_eval) |->
                             FAdd(a.y0[i].data[1],
                                  FMul(Fin(a.fun.c[i]), FSub(a.t_eval[k], a.t_span[1])))]]])

\* returning sol.y[4,0], the y-velocity
find_dxt_component4(fun, x0, dy0t, method) ==
    LET sol == solve_ivp(solve_args(fun, x0, dy0t, method))
    IN  IF sol.kind = "raise" THEN sol
        ELSE IF sol.val.y = << >> THEN Raise("TypeError")
        ELSE Return(Scalar(sol.val.y[5][1]))

\* handing back NaN when the solution has no sample
find_dxt_sentinel(fun, x0, dy0t, method) ==
    LET sol == solve_ivp(solve_args(fun, x0, dy0t, method))
    IN  IF sol.kind = "raise" THEN sol
        ELSE IF sol.val.y = << >> THEN Return(Scalar(NaN))
        ELSE Return(Scalar(sol.val.y[4][1]))

\* return sol.y[3,0]
find_dxt(fun, x0, dy0t, method) ==
    LET sol == solve_ivp(solve_args(fun, x0, dy0t, method))
    IN  IF sol.kind = "raise" THEN sol
        ELSE IF sol.val.y = << >> THEN Raise("TypeError")
        ELSE Return(Scalar(sol.val.y[4][1]))

-----------------------------------------------------------------------------
(* kleopy.grid_search.process_grid *)

process_grid(fun, X0_grid, DY0T_grid) ==
    find_dxt(fun, asarray(X0_grid), asarray(DY0T_grid), "DOP853")

-----------------------------------------------------------------------------
(* Inputs *)

\* positions: outside the body, on the first point mass, on the segment
\* (twice), outside again, and a non-finite one
PosPool == <<Fin(-1000), Fin(-l1), Fin(0), Fin(500), Fin(2000), PInf>>

\* energy constants: low, exactly 2 * potential_eff(-1, 0, 0), high, and
\* non-finite ones
CPool ==
    <<Fin(0), FMul(Fin(2 * Scale), potential_eff_at(Fin(-1000), Fin(0), Fin(0))),
      Fin(5000), NInf, NaN>>

\* a scalar of the pool, or an array of up to MaxLen consecutive pool entries
PoolInputs(pool) ==
    {Scalar(pool[i]) : i \in 1..Len(pool)}
    \cup {Array1(SubSeq(pool, w[1], w[1] + w[2] - 1)) :
            w \in {v \in (1..Len(pool)) \X (1..MaxLen) : v[1] + v[2] - 1 <= Len(pool)}}

RangeEnds == {Fin(-1000), Fin(0), Fin(1000)}
CEnds == {Fin(0), Fin(1000)}
Difs == {Fin(500 * n) : n \in 0..MaxDif}

\* the process-wide numpy error settings a caller may have in force
ErrProfiles ==
    { [divide |-> "warn", over |-> "warn", under |-> "ignore", invalid |-> "warn"],
      [divide |-> "raise", over |-> "raise", under |-> "raise", invalid |-> "raise"] }

\* the grids handed to process_grid: what init_grid built, or 0-d values
GridParams ==
    { <<Fin(-1000), Fin(1000), Fin(0), Fin(1000)>>, <<Fin(0), Fin(0), Fin(0), Fin(0)>>,
      <<Fin(0), Fin(1000), Fin(5000), Fin(5000)>> }

BuiltGrids ==
    { init_grid(g[1], g[2], g[3], g[4], Fin(500), Fin(500), FALSE).val : g \in GridParams }

GridInputs ==
    { [X0 |-> b[1], DY0T |-> b[3]] : b \in BuiltGrids }
    \cup { [X0 |-> Scalar(Fin(2000)), DY0T |-> Scalar(d)] : d \in {Fin(1339), NaN} }

DxtX0 == {Scalar(Fin(-1000)), Scalar(Fin(2000)), Array1(<<Fin(2000), Fin(1000)>>)}
DxtDy0t == {Scalar(Fin(0)), Scalar(Fin(1339)), Scalar(NaN), Array1(<<Fin(0), NaN>>)}

-----------------------------------------------------------------------------
(* The state machine: one action per call, and the caller's return to idle *)

Init ==
    /\ errstate \in ErrProfiles
    /\ rnd \in 0..2
    /\ op = "idle"
    /\ args = << >>
    /\ ret = [kind |-> "none"]
    /\ errBefore = errstate
    /\ solve = NoSolve

CallFindDy0t ==
    /\ op = "idle"
    /\ \E x0 \in PoolInputs(PosPool), C \in PoolInputs(CPool) :
        /\ op' = "find_dy0t"
        /\ args' = [x0 |-> x0, C |-> C]
        /\ errBefore' = errstate
        /\ errstate' = seterr_ignore(errstate)
        /\ ret' = find_dy0t(x0, C)
        /\ solve' = NoSolve
        /\ UNCHANGED rnd

CallInitGrid ==
    /\ op = "idle"
    /\ \E x0_min \in RangeEnds, x0_max \in RangeEnds, C_min \in CEnds, C_max \in CEnds,
       dif_x0 \in Difs, dif_C \in Difs \ {Fin(0)}, retgrid \in BOOLEAN :
        /\ op' = "init_grid"
        /\ args' = [x0_min |-> x0_min, x0_max |-> x0_max, C_min |-> C_min,
                    C_max |-> C_max, dif_x0 |-> dif_x0, dif_C |-> dif_C,
                    retgrid |-> retgrid]
        /\ errBefore' = errstate
        /\ ret' = init_grid(x0_min, x0_max, C_min, C_max, dif_x0, dif_C, retgrid)
        \* find_dy0t is reached only when both axes were built
        /\ errstate' = IF ret'.kind = "return" THEN seterr_ignore(errstate) ELSE errstate
        /\ solve' = NoSolve
        /\ UNCHANGED rnd

CallFindDxt ==
    /\ op = "idle"
    /\ \E fun \in Funs, x0 \in DxtX0, dy0t \in DxtDy0t :
        /\ op' = "find_dxt"
        /\ args' = [fun |-> fun, x0 |-> x0, dy0t |-> dy0t]
        /\ errBefore' = errstate
        /\ solve' = solve_args(fun, x0, dy0t, "DOP853")
        /\ ret' = find_dxt(fun, x0, dy0t, "DOP853")
        /\ UNCHANGED <<errstate, rnd>>

CallProcessGrid ==
    /\ op = "idle"
    /\ \E fun \in Funs, g \in GridInputs :
        /\ op' = "process_grid"
        /\ args' = [fun |-> fun, X0_grid |-> g.X0, DY0T_grid |-> g.DY0T]
        /\ errBefore' = errstate
        /\ solve' = solve_args(fun, asarray(g.X0), asarray(g.DY0T), "DOP853")
        /\ ret' = process_grid(fun, g.X0, g.DY0T)
        /\ UNCHANGED <<errstate, rnd>>

\* the caller takes the outcome and goes on; the error settings stay as the
\* call left them
Resume ==
    /\ op # "idle"
    /\ op' = "idle"
    /\ args' = << >>
    /\ ret' = [kind |-> "none"]
    /\ errBefore' = errstate
    /\ solve' = NoSolve
    /\ UNCHANGED <<errstate, rnd>>

Next ==
    \/ CallFindDy0t
    \/ CallInitGrid
    \/ CallFindDxt
    \/ CallProcessGrid
    \/ Resume

Spec == Init /\ [][Next]_vars

-----------------------------------------------------------------------------
(* find_dy0t: values *)

\* the two inputs of the find_dy0t call broadcast to a shape with elements
HasElements ==
    /\ op = "find_dy0t"
    /\ Compatible(args.x0.shape, args.C.shape)
    /\ BroadcastShape(args.x0.shape, args.C.shape) # << >>

\* r is the non-negative square root of the finite value sv >= 0, to the
\* precision of the representation
IsSqrtOf(r, sv) ==
    /\ IsFin(r)
    /\ r.v >= 0
    /\ r.v * r.v <= sv.v * Scale
    /\ sv.v * Scale < (r.v + 1) * (r.v + 1)

\* sqrtval at one pair, from the definition in the contract
SqrtvalAt(p, c) == FSub(FMul(Fin(2 * Scale), potential_eff_at(p, Fin(0), Fin(0))), c)

\* C1: at every element (p, C) of the broadcast inputs, find_dy0t returns the
\* non-negative square root of sqrtval = 2*potential_eff(p,0,0) - C when
\* sqrtval is finite and >= 0 (0 when it is 0), and NaN when sqrtval is
\* negative, infinite or NaN.
C1_SqrtOrNaN ==
    HasElements =>
        /\ ret.kind = "return"
        /\ \A k \in 1..Len(ret.val.data) :
             LET idx == Unravel(k - 1, ret.val.shape)
                 sv  == SqrtvalAt(BroadcastAt(args.x0, idx), BroadcastAt(args.C, idx))
                 r   == ret.val.data[k]
             IN  IF IsFin(sv) /\ sv.v >= 0 THEN IsSqrtOf(r, sv) ELSE IsNaN(r)

\* a call on [-1, -l1] with C = 2*potential_eff(-1,0,0): the first element is
\* the square root 0, the second (on the point mass, sqrtval not finite) is NaN
C1_Witness ==
    /\ HasElements
    /\ args.x0 = Array1(<<Fin(-1000), Fin(-l1)>>)
    /\ args.C = Scalar(CPool[2])
    /\ ret.kind = "return"
    /\ ret.val.data = <<Fin(0), NaN>>

\* C6: find_dy0t never raises on broadcast-compatible inputs, scalars
\* included, and its result has the broadcast shape of the two inputs.
C6_NeverRaises ==
    (op = "find_dy0t" /\ Compatible(args.x0.shape, args.C.shape)) =>
        /\ ret.kind = "return"
        /\ ret.val.shape = BroadcastShape(args.x0.shape, args.C.shape)

\* C9: the process-wide floating-point error settings after find_dy0t (and
\* so after init_grid) are those before the call.
C9_ErrStateRestored ==
    op \in {"find_dy0t", "init_grid"} => errstate = errBefore

-----------------------------------------------------------------------------
(* init_grid *)

GridReturned == op = "init_grid" /\ ret.kind = "return"

\* the axes, read off the returned grids: column 0 of X0_grid, row 0 of C_grid
NPos == ret.val[1].shape[1]
NEnergy == ret.val[1].shape[2]
PosAxis(i) == At(ret.val[1], <<i, 0>>)
EnergyAxis(j) == At(ret.val[2], <<0, j>>)

\* n = floor((hi - lo) / dif) + 1 for dif > 0
IsFloorPlusOne(n, lo, hi, dif) ==
    (n - 1) * dif.v <= hi.v - lo.v /\ hi.v - lo.v < n * dif.v

ValidRanges ==
    /\ GridReturned
    /\ args.x0_min.v <= args.x0_max.v /\ args.C_min.v <= args.C_max.v
    /\ args.dif_x0.v > 0 /\ args.dif_C.v > 0

\* C4 as stated: each axis has floor((max - min)/step) + 1 samples, its first
\* sample is min and its last sample is max, also when max - min is smaller
\* than the step.
C4_BothEndpoints ==
    ValidRanges =>
        /\ IsFloorPlusOne(NPos, args.x0_min, args.x0_max, args.dif_x0)
        /\ IsFloorPlusOne(NEnergy, args.C_min, args.C_max, args.dif_C)
        /\ PosAxis(0) = args.x0_min /\ PosAxis(NPos - 1) = args.x0_max
        /\ EnergyAxis(0) = args.C_min /\ EnergyAxis(NEnergy - 1) = args.C_max

\* the last sample of an axis of n samples over [lo, hi]
LastSample(n, lo, hi) == IF n >= 2 THEN hi ELSE lo

\* C4 amended: each axis has floor((max - min)/step) + 1 samples and its first
\* sample is min; its last sample is max when it has two samples or more
\* (max - min >= step), and an axis of one sample holds min alone.
C4_EndpointsFromTwoSamples ==
    ValidRanges =>
        /\ IsFloorPlusOne(NPos, args.x0_min, args.x0_max, args.dif_x0)
        /\ IsFloorPlusOne(NEnergy, args.C_min, args.C_max, args.dif_C)
        /\ PosAxis(0) = args.x0_min
        /\ PosAxis(NPos - 1) = LastSample(NPos, args.x0_min, args.x0_max)
        /\ EnergyAxis(0) = args.C_min
        /\ EnergyAxis(NEnergy - 1) = LastSample(NEnergy, args.C_min, args.C_max)

\* a position range shorter than its step gives the single sample min, and
\* an energy range of three samples ends on max
C4_Witness ==
    /\ ValidRanges
    /\ args.x0_min.v < args.x0_max.v /\ NPos = 1 /\ PosAxis(0) = args.x0_min
    /\ NEnergy = 3 /\ EnergyAxis(2) = args.C_max

\* the axes as init_grid builds them
AxisFor(lo, hi, dif) == linspace(lo, hi, num_samples(lo, hi, dif)).val.data

\* C5: the grids have shape (n_pos, n_energy) with X0_grid[i,j] =
\* position_axis[i] and C_grid[i,j] = energy_axis[j], and DY0T_grid[i,j] is
\* what find_dy0t gives when called on the single pair (position_axis[i],
\* energy_axis[j]), NaN cells included.
C5_GridAgreesWithSinglePairs ==
    GridReturned =>
        LET xs == AxisFor(args.x0_min, args.x0_max, args.dif_x0)
            cs == AxisFor(args.C_min, args.C_max, args.dif_C)
        IN  /\ \A g \in 1..3 : ret.val[g].shape = <<Len(xs), Len(cs)>>
            /\ \A i \in 1..Len(xs), j \in 1..Len(cs) :
                 LET single == find_dy0t(Scalar(xs[i]), Scalar(cs[j]))
                 IN  /\ At(ret.val[1], <<i - 1, j - 1>>) = xs[i]
                     /\ At(ret.val[2], <<i - 1, j - 1>>) = cs[j]
                     /\ single.kind = "return"
                     /\ At(ret.val[3], <<i - 1, j - 1>>) = single.val.data[1]

\* The same comparison with each pair handed over as two one-element arrays,
\* the form in which find_dy0t returns
GridAgreesWithOneElementArrays ==
    GridReturned =>
        LET xs == AxisFor(args.x0_min, args.x0_max, args.dif_x0)
            cs == AxisFor(args.C_min, args.C_max, args.dif_C)
        IN  /\ \A g \in 1..3 : ret.val[g].shape = <<Len(xs), Len(cs)>>
            /\ \A i \in 1..Len(xs), j \in 1..Len(cs) :
                 LET single == find_dy0t(Array1(<<xs[i]>>), Array1(<<cs[j]>>))
                 IN  /\ At(ret.val[1], <<i - 1, j - 1>>) = xs[i]
                     /\ At(ret.val[2], <<i - 1, j - 1>>) = cs[j]
                     /\ single.kind = "return"
                     /\ At(ret.val[3], <<i - 1, j - 1>>) = single.val.data[1]

\* C10: with retgrid=True the fourth result has shape (n_pos * n_energy, 2)
\* and its row k = i*n_energy + j is (position_axis[i], energy_axis[j]): the
\* rows line up with the row-major flattening of X0_grid and C_grid.
C10_PairsLineUp ==
    (GridReturned /\ args.retgrid) =>
        LET grid == ret.val[4]
        IN  /\ grid.shape = <<NPos * NEnergy, 2>>
            /\ \A i \in 0..(NPos - 1), j \in 0..(NEnergy - 1) :
                 /\ At(grid, <<i * NEnergy + j, 0>>) = PosAxis(i)
                 /\ At(grid, <<i * NEnergy + j, 1>>) = EnergyAxis(j)
                 /\ At(grid, <<i * NEnergy + j, 0>>) = ret.val[1].data[1 + i * NEnergy + j]
                 /\ At(grid, <<i * NEnergy + j, 1>>) = ret.val[2].data[1 + i * NEnergy + j]

\* the 5 x 3 grid over [-1, 1] and [0, 1] with step 0.5: 15 rows, row 4
\* (i = 1, j = 1) is (-0.5, 0.5)
C10_Witness ==
    /\ GridReturned /\ args.retgrid
    /\ NPos = 5 /\ NEnergy = 3
    /\ ret.val[4].shape = <<15, 2>>
    /\ At(ret.val[4], <<4, 0>>) = Fin(-500) /\ At(ret.val[4], <<4, 1>>) = Fin(500)

-----------------------------------------------------------------------------
(* find_dxt *)

\* a find_dxt call on a scalar position and a scalar velocity
ScalarDxtCall == op = "find_dxt" /\ args.x0.shape = << >> /\ args.dy0t.shape = << >>

Val(a) == a.data[1]

\* the x-velocity at t = pi of the exact solution of Y' = c from Y0: the
\* component that starts at 0 and grows at the rate c[4]
XVelocityAtPi(fun) == FAdd(Fin(0), FMul(Fin(fun.c[4]), Fin(PI)))

\* C7: find_dxt integrates from Y0 = (x0, 0, 0, 0, dy0t, 0) over [0, pi] with
\* the single evaluation time pi, and what it returns is component 3 (the
\* x-velocity) of the state at t = pi.
C7_XVelocityAtPi ==
    ScalarDxtCall =>
        /\ solve.called
        /\ solve.fun = args.fun
        /\ [i \in 1..6 |-> Val(solve.y0[i])] =
               <<Val(args.x0), Fin(0), Fin(0), Fin(0), Val(args.dy0t), Fin(0)>>
        /\ solve.t_span = <<Fin(0), Fin(PI)>>
        /\ solve.t_eval = <<Fin(PI)>>
        /\ ret.kind = "return" => ret.val = Scalar(XVelocityAtPi(args.fun))

\* x0 = 2, dy0t = 1.339 under the drift field: the x-velocity at pi is
\* 0.4 * pi, not the y-velocity 1.339 + 0.5 * pi
C7_Witness ==
    /\ ScalarDxtCall
    /\ args.fun.name = "drift"
    /\ Val(args.x0) = Fin(2000) /\ Val(args.dy0t) = Fin(1339)
    /\ ret = Return(Scalar(Fin(1256)))

\* the solver ran on the arguments of the call and ended in failure
SolverFailed ==
    /\ solve.called
    /\ solve_ivp(solve).kind = "return"
    /\ solve_ivp(solve).val.status # 0

\* C8: when the solver reports failure, find_dxt ends in a failure of its own
\* and never returns a number or a sentinel.
C8_FailedSolveRaises ==
    (op = "find_dxt" /\ SolverFailed) => ret.kind = "raise"

\* the step size collapses on the singular field: find_dxt raises
C8_Witness ==
    /\ ScalarDxtCall
    /\ args.fun.singular
    /\ SolverFailed
    /\ ret = Raise("TypeError")

-----------------------------------------------------------------------------
(* process_grid *)

\* process_grid was called on two 2-D grids of one shape
GridCall ==
    /\ op = "process_grid"
    /\ Len(args.X0_grid.shape) = 2
    /\ args.DY0T_grid.shape = args.X0_grid.shape

\* C2: process_grid returns a grid of the shape of its inputs whose cell
\* (i,j) is find_dxt(fun, X0_grid[i,j], DY0T_grid[i,j]).
C2_OnePropagationPerCell ==
    GridCall =>
        /\ ret.kind = "return"
        /\ ret.val.shape = args.X0_grid.shape
        /\ \A k \in 1..Len(args.X0_grid.data) :
             Return(Scalar(ret.val.data[k])) =
                 find_dxt(args.fun, Scalar(args.X0_grid.data[k]),
                          Scalar(args.DY0T_grid.data[k]), "DOP853")

\* C3: the cells of the returned grid that are NaN are exactly the cells
\* whose initial velocity is NaN, and process_grid does not raise.
C3_NaNMaskPreserved ==
    GridCall =>
        /\ ret.kind = "return"
        /\ ret.val.shape = args.DY0T_grid.shape
        /\ \A k \in 1..Len(args.DY0T_grid.data) :
             IsNaN(args.DY0T_grid.data[k]) <=> IsNaN(ret.val.data[k])

====
